---- MODULE Spec2Model ----
(***************************************************************************)
(* A model of scintillometry's stream-combination engine                   *)
(* (scintillometry/combining.py) and of its PSRFITS fold-mode reader       *)
(* (scintillometry/io/psrfits/core.py, hdu.py).                            *)
(*                                                                         *)
(* Arrays are records [shape, rows]: shape is the numpy shape, rows the    *)
(* nested sequences of the elements, axis 0 outermost.  Sample values are  *)
(* integers that encode (stream, time, channel), so that every element of  *)
(* every stream is distinct and a misplaced element is visible.            *)
(***************************************************************************)
EXTENDS Integers, Sequences, FiniteSets, TLC

\* ---------------------------------------------------------------- bounds
MaxStreams == 2     \* streams in a group: 0..MaxStreams
NFrames == 2        \* frames in a stream of the nominal length
MaxSpf == 2         \* samples per frame of the member streams: 1..MaxSpf
MaxWidth == 2       \* sample shape (width,) of a member stream: 1..MaxWidth
MaxHDUs == 3        \* HDUs in a file: 1..MaxHDUs
MaxRow == 2         \* rows of a SUBINT table: 1..MaxRow
MaxPol == 2         \* polarizations: 1..MaxPol
MaxChan == 2        \* channels: 1..MaxChan
MaxObsChan == 3     \* OBSNCHAN of a primary header: 1..MaxObsChan
MaxBin == 2         \* phase bins: 1..MaxBin

\* ------------------------------------------------------ program constants
ProbeLen == 7       \* the length of the synthetic blocks of __init__
NoFrameLen == -1    \* getattr(self._frame, 'shape', [-1])[0] with no frame
NoneCode == 0       \* an element that is None (samples are all positive)

VARIABLES
    ihs,          \* the stream group handed to the constructor
    task,         \* the combining task: [cls, axis, fn]
    pc,           \* "new", "built" (constructed), "failed" (__init__ raised)
    err,          \* the exception __init__ raised
    taskCalls,    \* how many times __init__ invoked self.task
    shape,        \* the combined stream's shape
    attrs,        \* its frequency, sideband, polarization
    spf,          \* its _samples_per_frame
    frame,        \* its _frame: the last frame produced
    frame_index,  \* its _frame_index
    last,         \* what the last _read_frame returned or raised
    offsets,      \* offsets[k]: the read cursor of member k
    closeLog,     \* the members whose close() was called, in call order
    closed,       \* whether the combined stream is closed
    hdu_list,     \* the HDUs of the FITS file handed to open
    mode,         \* open's mode argument
    kwargs,       \* open's keyword arguments: verify, weighted
    fpc,          \* "new", "open" (a reader returned), "failed", "closed"
    ferr,         \* the exception open raised
    reader,       \* the PSRFITSReader open returned
    foffset,      \* the reader's sample pointer
    lastRow,      \* what the last read_data_row returned or raised
    releaseLog,   \* what close() released, in call order
    lastFreq      \* what the last look at a frequency property gave

fvars == <<hdu_list, mode, kwargs, fpc, ferr, reader, foffset, lastRow,
           releaseLog, lastFreq>>

cvars == <<ihs, task, pc, err, taskCalls, shape, attrs, spf, frame,
           frame_index, last, offsets, closeLog, closed>>

vars == <<cvars, fvars>>

\* ----------------------------------------------------------- sequences
RECURSIVE ConcatAll(_)
ConcatAll(ss) == IF ss = <<>> THEN <<>> ELSE Head(ss) \o ConcatAll(Tail(ss))

RECURSIVE SumSeq(_)
SumSeq(s) == IF s = <<>> THEN 0 ELSE Head(s) + SumSeq(Tail(s))

RECURSIVE MaxSeq(_)
MaxSeq(s) ==
    IF Len(s) = 1 THEN s[1]
    ELSE LET m == MaxSeq(Tail(s)) IN IF s[1] > m THEN s[1] ELSE m

\* The element of a set of one element: Only({F(x) : x \in {e}}) is F(e)
\* with e evaluated once.
Only(S) == CHOOSE x \in S : TRUE

\* ------------------------------------------------------ arrays and calls
NoFrame == [shape |-> <<NoFrameLen>>, rows |-> <<>>]

Ok(a) == [ok |-> TRUE, a |-> a, exc |-> "none"]
Raise(e) == [ok |-> FALSE, a |-> NoFrame, exc |-> e]

\* The value of member k at time t (from 0), channel c (from 1).
Sample(k, t, c) == 100 * k + 10 * t + c

\* Base.read(n) of member k with its cursor at off: the next n samples.
MemberRead(k, off, n) ==
    [shape |-> <<n, ihs[k].width>>,
     rows  |-> [t \in 1..n |->
                  [c \in 1..ihs[k].width |-> Sample(k, off + t - 1, c)]]]

\* np.empty((7,) + ih.sample_shape, ih.dtype): the content is whatever the
\* allocator left there (fill).
Fake(ih, fill) ==
    [shape |-> <<ProbeLen, ih.width>>,
     rows  |-> [t \in 1..ProbeLen |-> [c \in 1..ih.width |-> fill]]]

\* np.concatenate(data, axis=axis, out=out) of arrays of two dimensions.
np_concatenate(data, axis, out) ==
    LET K == Len(data)
        s1 == data[1].shape
        nd == Len(s1)
        agree == \A k \in 1..K :
                    /\ Len(data[k].shape) = nd
                    /\ \A d \in 1..nd :
                          d # axis + 1 => data[k].shape[d] = s1[d]
        total == SumSeq([k \in 1..K |-> data[k].shape[axis + 1]])
        rshape == [s1 EXCEPT ![axis + 1] = total]
        rrows == IF axis = 0
                 THEN ConcatAll([k \in 1..K |-> data[k].rows])
                 ELSE [t \in 1..s1[1] |->
                         ConcatAll([k \in 1..K |-> data[k].rows[t]])]
    IN  IF axis >= nd \/ ~agree THEN Raise("ValueError")
        ELSE IF out # NoFrame /\ out.shape # rshape THEN Raise("ValueError")
        ELSE Ok([shape |-> rshape, rows |-> rrows])

\* np.stack(data, axis=axis, out=out) of arrays of two dimensions.
np_stack(data, axis, out) ==
    LET K == Len(data)
        s1 == data[1].shape
        n == s1[1]
        w == s1[2]
        agree == \A k \in 1..K : data[k].shape = s1
        rshape == IF axis = 0 THEN <<K, n, w>>
                  ELSE IF axis = 1 THEN <<n, K, w>> ELSE <<n, w, K>>
        rrows == IF axis = 0 THEN [k \in 1..K |-> data[k].rows]
                 ELSE IF axis = 1
                 THEN [t \in 1..n |-> [k \in 1..K |-> data[k].rows[t]]]
                 ELSE [t \in 1..n |->
                         [c \in 1..w |-> [k \in 1..K |-> data[k].rows[t][c]]]]
    IN  IF axis > 2 \/ ~agree THEN Raise("ValueError")
        ELSE IF out # NoFrame /\ out.shape # rshape THEN Raise("ValueError")
        ELSE Ok([shape |-> rshape, rows |-> rrows])

\* The buffer a task hands numpy as out=: the stream's frame when its
\* leading dimension is that of the first block, else None.
Reuse(frm, data) ==
    IF frm.shape[1] = data[1].shape[1] THEN frm ELSE NoFrame

\* Concatenate.task
ConcatenateTaskMutant(axis, data, frm) ==
    LET out == Reuse(frm, data) IN
    IF out # NoFrame THEN Ok(out) ELSE np_concatenate(data, axis, out)
ConcatenateTask(axis, data, frm) ==
    np_concatenate(data, axis, Reuse(frm, data))

\* Stack.task
StackTask(axis, data, frm) ==
    np_stack(data, axis, Reuse(frm, data))

\* A CombineStreams callable that adds the blocks, as numpy broadcasts them:
\* lambda data: sum(data[1:], data[0]).
SumFn(data) ==
    LET K == Len(data)
        n == data[1].shape[1]
        ws == [k \in 1..K |-> data[k].shape[2]]
        W == MaxSeq(ws)
        fits == \A k \in 1..K :
                   /\ data[k].shape[1] = n
                   /\ ws[k] \in {1, W}
        hasNone == \E k \in 1..K : \E t \in 1..n : \E c \in 1..ws[k] :
                      data[k].rows[t][c] = NoneCode
        col(k, c) == IF ws[k] = 1 THEN 1 ELSE c
    IN  IF ~fits THEN Raise("ValueError")
        ELSE IF hasNone THEN Raise("TypeError")
        ELSE Ok([shape |-> <<n, W>>,
                 rows |-> [t \in 1..n |-> [c \in 1..W |->
                     SumSeq([k \in 1..K |-> data[k].rows[t][col(k, c)]])]]])

\* A CombineStreams callable that joins the channels and leaves a block of
\* an odd number of samples alone, but drops the last sample of a block of
\* an even number: lambda data: np.concatenate(data, 1)[:(n - 1) | 1].
DropEven(r) ==
    LET n == r.a.shape[1]
        m == IF n % 2 = 0 THEN n - 1 ELSE n
    IN  IF ~r.ok THEN r
        ELSE Ok([shape |-> [r.a.shape EXCEPT ![1] = m],
                 rows |-> SubSeq(r.a.rows, 1, m)])

DropEvenFn(data) ==
    Only({DropEven(r) : r \in {np_concatenate(data, 1, NoFrame)}})

\* self.task(data) of a stream whose _frame is frm: the task of the class,
\* or the callable of a CombineStreams.
TaskOf(tk, data, frm) ==
    IF tk.cls = "Concatenate" THEN ConcatenateTask(tk.axis, data, frm)
    ELSE IF tk.cls = "Stack" THEN StackTask(tk.axis, data, frm)
    ELSE IF tk.fn = "sum" THEN SumFn(data)
    ELSE DropEvenFn(data)

TaskApply(tk, data, frm) == Only({TaskOf(tk, d, frm) : d \in {data}})

\* ------------------------------------------------ exceptions of __init__
\* exc is the Python exception, note the message the code appends to its
\* args ("none": nothing appended), subject what that message names.
NoErr == [exc |-> "none", note |-> "none", subject |-> "none"]
Exc(e, note, subject) == [exc |-> e, note |-> note, subject |-> subject]

\* The error of the documented taxonomy an exception stands for.
ErrorKind(e) ==
    IF e.note = "need_stream" THEN "ConfigurationError"
    ELSE IF e.note = "cannot_combine_shapes" THEN "IncompatibleShapeError"
    ELSE IF e.note = "affected_sample_axis" THEN "ConsistencyError"
    ELSE IF e.note = "cannot_combine_attr" THEN "AttributeCombinationError"
    ELSE IF e.exc = "AssertionError" THEN "ConsistencyError"
    ELSE e.exc

\* ------------------------------------------------- CombineStreamsBase
CheckedAttrs == <<"sample_rate", "dtype", "start_time", "shape0">>

AttrOf(ih, a) ==
    IF a = "sample_rate" THEN <<"rate", ih.sample_rate>>
    ELSE IF a = "dtype" THEN <<"dtype", ih.dtype>>
    ELSE IF a = "start_time" THEN <<"time", ih.start_time>>
    ELSE <<"len", ih.n>>

\* for ih in ihs[1:]: the four asserts.  TRUE when all of them pass.
AssertsPass(g) ==
    \A k \in 2..Len(g) : \A i \in 1..4 :
        AttrOf(g[k], CheckedAttrs[i]) = AttrOf(g[1], CheckedAttrs[i])

\* if a.shape[0] != 7
ProbeAffectedMutant(a) == FALSE
ProbeAffected(a) == a.shape[1] # ProbeLen

MetaNames == <<"frequency", "sideband", "polarization">>

NoneAttr == [kind |-> "None", v |-> <<>>]

\* getattr(ih, attr, None): "None", "plain" (an array) or "quantity" (an
\* array with a unit), one element per channel of the stream.
GetAttr(ih, attr) ==
    IF attr = "frequency" THEN ih.frequency
    ELSE IF attr = "sideband" THEN ih.sideband ELSE ih.polarization

\* The elements of member k's attribute.
MetaValue(k, c) == Sample(k, 9, c)

\* np.broadcast_to(value, (1,) + ih.sample_shape)
BroadcastAttr(g, k, kind) ==
    [shape |-> <<1, g[k].width>>,
     rows  |-> <<[c \in 1..g[k].width |->
                    IF kind = "None" THEN NoneCode ELSE MetaValue(k, c)]>>]

\* _combine_attr(attr): [ok, value, err, calls].
CombineAttr(g, tk, attr) ==
    LET K == Len(g)
        kinds == [k \in 1..K |-> GetAttr(g[k], attr)]
        allNone == \A k \in 1..K : kinds[k] = "None"
        unit == IF kinds[1] = "quantity" THEN "MHz" ELSE "None"
        \* value.to_value(unit) of a value that is no Quantity
        noToValue == unit # "None" /\ \E k \in 1..K : kinds[k] # "quantity"
        values == [k \in 1..K |-> BroadcastAttr(g, k, kinds[k])]
        \* with no unit taken off, a Quantity among plain arrays: numpy
        \* hands the task's call to astropy, which refuses the plain ones
        mixed == unit = "None" /\ \E k \in 1..K : kinds[k] = "quantity"
        wrap(r) ==
            IF ~r.ok
            THEN [ok |-> FALSE, value |-> NoneAttr,
                  err |-> Exc(r.exc, "cannot_combine_attr", attr),
                  calls |-> 1]
            ELSE [ok |-> TRUE,
                  value |-> [kind |-> IF unit = "None" THEN "plain"
                                      ELSE "quantity",
                             v |-> r.a.rows[1]],
                  err |-> NoErr, calls |-> 1]
    IN  IF allNone
        THEN [ok |-> TRUE, value |-> NoneAttr, err |-> NoErr, calls |-> 0]
        ELSE IF noToValue
        THEN [ok |-> FALSE, value |-> NoneAttr,
              err |-> Exc("AttributeError", "none", "none"), calls |-> 0]
        ELSE Only({wrap(r) : r \in
                     {IF mixed THEN Raise("UnitConversionError")
                      ELSE TaskApply(tk, values, NoFrame)}})

NoAttrs == [frequency |-> NoneAttr, sideband |-> NoneAttr,
            polarization |-> NoneAttr]

\* CombineStreamsBase.__init__(ihs): [pc, err, calls, shape, attrs].
Failed(e, calls) ==
    [pc |-> "failed", err |-> e, calls |-> calls, shape |-> <<>>,
     attrs |-> NoAttrs]

\* The part of __init__ after the probe returned a: the dictionary of the
\* attributes, built in the order frequency, sideband, polarization, and
\* TaskBase.__init__.
CombineAttrs(g, tk, a) ==
    LET rest(f, s, p) ==
            IF ~f.ok THEN Failed(f.err, 1 + f.calls)
            ELSE IF ~s.ok THEN Failed(s.err, 1 + f.calls + s.calls)
            ELSE IF ~p.ok
            THEN Failed(p.err, 1 + f.calls + s.calls + p.calls)
            ELSE [pc |-> "built", err |-> NoErr,
                  calls |-> 1 + f.calls + s.calls + p.calls,
                  shape |-> <<g[1].n>> \o Tail(a.shape),
                  attrs |-> [frequency |-> f.value, sideband |-> s.value,
                             polarization |-> p.value]]
    IN  Only({rest(f, s, p) : f \in {CombineAttr(g, tk, "frequency")},
                              s \in {CombineAttr(g, tk, "sideband")},
                              p \in {CombineAttr(g, tk, "polarization")}})

\* The part of __init__ from the probe on; r is what self.task(fakes)
\* returned or raised.
CombineProbed(g, tk, r) ==
    IF ~r.ok THEN Failed(Exc(r.exc, "cannot_combine_shapes", "none"), 1)
    ELSE IF ProbeAffected(r.a)
    THEN Failed(Exc("ValueError", "affected_sample_axis", "none"), 1)
    ELSE CombineAttrs(g, tk, r.a)

Fakes(g, fill) == [k \in 1..Len(g) |-> Fake(g[k], fill)]

CombineInit(g, tk, fill) ==
    IF Len(g) = 0
    THEN Failed(Exc("IndexError", "need_stream", "none"), 0)
    ELSE IF ~AssertsPass(g)
    THEN Failed(Exc("AssertionError", "none", "none"), 0)
    ELSE Only({CombineProbed(g, tk, r) :
                  r \in {TaskApply(tk, Fakes(g, fill), NoFrame)}})

\* TaskBase.__init__(ih0, shape=shape, **attrs): the combined stream reads
\* in frames of the first member's samples_per_frame.
TaskBaseSpf(g) == g[1].samples_per_frame

\* The construction of a combined stream over ihs with task.
Construct ==
    /\ pc = "new"
    /\ \E fill \in {NoneCode + 1, NoneCode + 2} :
       \E r \in {CombineInit(ihs, task, fill)} :
          /\ pc' = r.pc
          /\ err' = r.err
          /\ taskCalls' = r.calls
          /\ shape' = r.shape
          /\ attrs' = r.attrs
          /\ spf' = IF r.pc = "built" THEN TaskBaseSpf(ihs) ELSE spf
    /\ UNCHANGED <<ihs, task, frame, frame_index, last, offsets, closeLog,
                   closed>>
    /\ UNCHANGED fvars

\* for ih in self.ihs: ih.seek(frame_index * spf); ih.read(spf)
\* [data, offsets]: the blocks read and where the cursors are left.
ReadBlocksMutant(i) ==
    [data |-> [k \in 1..Len(ihs) |-> MemberRead(k, offsets[k], spf)],
     offsets |-> [k \in 1..Len(ihs) |-> offsets[k] + spf]]
ReadBlocks(i) ==
    [data |-> [k \in 1..Len(ihs) |-> MemberRead(k, i * spf, spf)],
     offsets |-> [k \in 1..Len(ihs) |-> i * spf + spf]]

\* last: the frame asked for, the result, and what the call found: whether
\* some member's cursor was not at the start of the frame, and whether the
\* task was handed the old frame as out=.
NoRead == [index |-> -1, res |-> Raise("none"), moved |-> FALSE,
           reused |-> FALSE]

\* Base.read keeps the frame _read_frame returned as self._frame.
KeepFrame(r) == IF r.ok THEN r.a ELSE frame

\* _read_frame(i) of the combined stream, for a frame of the stream.
ReadFrame(i) ==
    /\ pc = "built"
    /\ ~closed
    /\ (i + 1) * spf <= shape[1]
    /\ \E b \in {ReadBlocks(i)} :
       \E r \in {TaskApply(task, b.data, frame)} :
           /\ last' = [index |-> i, res |-> r,
                        moved |-> \E k \in 1..Len(ihs) : offsets[k] # i * spf,
                        reused |-> Reuse(frame, b.data) # NoFrame]
           /\ offsets' = b.offsets
           /\ frame' = KeepFrame(r)
           /\ frame_index' = IF r.ok THEN i ELSE frame_index
    /\ UNCHANGED <<ihs, task, pc, err, taskCalls, shape, attrs, spf,
                   closeLog, closed>>
    /\ UNCHANGED fvars

\* Where a member's cursor may have been left by its other users: inside
\* the first frame, or at the end.
SeekTargets(k) == {1, ihs[k].n}

\* seek(pos) of member k, by whoever else holds the member.
MemberSeek(k, pos) ==
    /\ pc = "built"
    /\ ~closed
    /\ offsets' = [offsets EXCEPT ![k] = pos]
    /\ UNCHANGED <<ihs, task, pc, err, taskCalls, shape, attrs, spf, frame,
                   frame_index, last, closeLog, closed>>
    /\ UNCHANGED fvars

\* TaskBase.close(): closes self.ih, the first member.
TaskBaseClose == <<1>>

\* CombineStreamsBase.close(): the members closed, in call order.
CloseOrderMutant(K) == TaskBaseClose \o [j \in 1..K |-> j]
CloseOrder(K) == TaskBaseClose \o [j \in 1..(K - 1) |-> j + 1]

Close ==
    /\ pc = "built"
    /\ ~closed
    /\ closeLog' = closeLog \o CloseOrder(Len(ihs))
    /\ closed' = TRUE
    /\ UNCHANGED <<ihs, task, pc, err, taskCalls, shape, attrs, spf, frame,
                   frame_index, last, offsets>>
    /\ UNCHANGED fvars

\* ------------------------------------------------------------ the inputs
Tasks ==
    [cls : {"Concatenate"}, axis : {0, 1}, fn : {"none"}]
    \cup [cls : {"Stack"}, axis : {0, 1, 2}, fn : {"none"}]
    \cup [cls : {"CombineStreams"}, axis : {0}, fn : {"sum", "dropeven"}]

\* Streams of s samples per frame; the nominal length is NFrames frames.
Members(s) ==
    [sample_rate : {1, 2}, dtype : {"f8", "f4"}, start_time : {0, 1},
     n : {NFrames * s, (NFrames + 1) * s}, width : 1..MaxWidth,
     samples_per_frame : {s},
     frequency : {"None"}, sideband : {"None"}, polarization : {"None"}]

Nominal(ih) ==
    /\ ih.sample_rate = 1
    /\ ih.dtype = "f8"
    /\ ih.start_time = 0
    /\ ih.n = NFrames * ih.samples_per_frame

\* ---------------------------------------------------------------- PSRFITS
\* An HDU is [name, obs_mode, fitstype, obs, t]: its name, the OBS_MODE
\* and FITSTYPE of its header (a primary HDU's), obs, the keywords
\* OBSNCHAN, OBSFREQ and OBSBW of that header (present or not, in MHz), and
\* its table t (an extension's).  A table is
\*   nrow, npol, nchan, nbin: NAXIS2, NPOL, NCHAN, NBIN of the header;
\*   dshape: the shape of one DATA cell, (polarization, channel, bin);
\*   has_freq, freq: whether there is a DAT_FREQ column, and its rows;
\*   tsubint: the TSUBINT column, in hundredths of a second;
\*   zero_off: the ZERO_OFF keyword: present, numeric, value;
\*   has_wts, wts: whether there is a DAT_WTS column, and one row of it.
HDU_map == {"PRIMARY", "SUBINT"}
subint_map == {"PSR"}

\* DATA, DAT_SCL and DAT_OFFS of row r (from 0); DAT_SCL and DAT_OFFS are
\* flat columns of npol * nchan elements, j = (p - 1) * nchan + c.
Raw(r, p, c, b) == 50 * r + 20 * p + 5 * c + b
DatScl(r, j) == 1 + j
DatOffs(r, j) == 10 * j + r

\* zero_off of read_data_row: the keyword, or 0 when it is absent or
\* float() refuses it.
ZeroOff(t) ==
    IF t.zero_off.present /\ t.zero_off.numeric THEN t.zero_off.value ELSE 0

\* SubintHDU.read_data_row(index, weighted).  row['DATA'] has the shape
\* (P, C, B); the coefficients reshaped (-1, 1) have the shape (P * C, 1),
\* which numpy lines up with the last two axes of the data.
read_data_row(t, index, weighted) ==
    LET P == t.dshape[1]
        C == t.dshape[2]
        B == t.dshape[3]
        L == P * C
        z == ZeroOff(t)
        lineUp == C = L \/ C = 1 \/ L = 1
        M == IF C > L THEN C ELSE L
        dc(j) == IF C = 1 THEN 1 ELSE j
        sj(j) == IF L = 1 THEN 1 ELSE j
        useW == weighted /\ t.has_wts
        W == Len(t.wts)
        wj(j) == IF W = 1 THEN 1 ELSE j
        el(p, j, b) ==
            (Raw(index, p, dc(j), b) - z) * DatScl(index, sj(j))
            + DatOffs(index, sj(j))
    IN  IF index >= t.nrow THEN Raise("EOFError")
        ELSE IF ~lineUp THEN Raise("ValueError")
        ELSE IF useW /\ ~(W = M \/ W = 1) THEN Raise("ValueError")
        ELSE Ok([shape |-> <<P, M, B>>,
                 rows |-> [p \in 1..P |-> [j \in 1..M |-> [b \in 1..B |->
                    IF useW THEN el(p, j, b) * t.wts[wj(j)]
                    ELSE el(p, j, b)]]]])

\* SubintHDU.shape[0]: nrow * samples_per_frame, and PSRSubintHDU's
\* samples_per_frame.
samples_per_frame == 1
SubintShape0(t) == t.nrow * samples_per_frame

\* np.isclose(a, b, atol=1e-1), with numpy's rtol of 1e-5, on hundredths.
IsClose(a, b) ==
    LET d == IF a > b THEN a - b ELSE b - a
    IN  100000 * d <= 1000000 + b

\* PSRFITSPrimaryHDU.verify: the message of the assert that fails.
PrimaryVerify(h) ==
    IF h.fitstype # "PSRFITS" THEN "not_psrfits" ELSE "ok"

\* PSRSubintHDU.verify (with SubintHDU.verify): the message of the first
\* assert that fails.  EXTNAME is the name the HDU was found under.
SubintVerify(h, primary) ==
    LET t == h.t IN
    IF h.name # "SUBINT" THEN "not_subint"
    ELSE IF primary.obs_mode # "PSR" THEN "not_folding_mode"
    ELSE IF ~(t.nbin > 1) THEN "invalid_nbin"
    ELSE IF t.has_freq /\ \E r \in 1..t.nrow : t.freq[r] # t.freq[1]
    THEN "freqs_differ"
    ELSE IF \E r \in 1..t.nrow : ~IsClose(t.tsubint[1], t.tsubint[r])
    THEN "tsubint_differ"
    ELSE IF t.dshape # <<t.npol, t.nchan, t.nbin>> THEN "shape_mismatch"
    ELSE "ok"

NoFErr == [exc |-> "none", msg |-> "none"]
FExc(e, m) == [exc |-> e, msg |-> m]

\* HDU_map['SUBINT'](hdu, primary_hdu): SubintHDU.__new__ looks the mode
\* up, HDUWrapper.__init__ verifies (verify is left at its default).
WrapSubint(h, primary) ==
    IF primary.obs_mode \notin subint_map
    THEN FExc("ValueError", "not_a_valid_mode")
    ELSE IF SubintVerify(h, primary) # "ok"
    THEN FExc("AssertionError", SubintVerify(h, primary))
    ELSE NoFErr

\* PSRFITSReader(hl[i], **kwargs): __init__ takes frequency, sideband,
\* polarization, dtype and weighted; the reader's shape is the wrapper's.
NewReader(hl, i, kw) ==
    IF kw.verify # "unset"
    THEN [ok |-> FALSE, err |-> FExc("TypeError", "unexpected_keyword"),
          r |-> [ih |-> 0, weighted |-> FALSE, shape0 |-> 0]]
    ELSE [ok |-> TRUE, err |-> NoFErr,
          r |-> [ih |-> i, weighted |-> kw.weighted # "False",
                 shape0 |-> SubintShape0(hl[i].t)]]

\* The positions in hl of the HDUs named name, in file order.
RECURSIVE Named(_, _, _)
Named(hl, name, i) ==
    IF i > Len(hl) THEN <<>>
    ELSE (IF hl[i].name = name THEN <<i>> ELSE <<>>) \o Named(hl, name, i + 1)

\* get_readers(hdu_list, **kwargs): [ok, err, readers].
get_readers(hl, kw) ==
    LET primary == Named(hl, "PRIMARY", 1)
        subints == Named(hl, "SUBINT", 1)
        bad == {j \in 1..Len(subints) :
                   WrapSubint(hl[subints[j]], hl[primary[1]]) # NoFErr}
        first == CHOOSE j \in bad : \A k \in bad : j <= k
        made == [j \in 1..Len(subints) |-> NewReader(hl, subints[j], kw)]
    IN  IF Len(primary) # 1
        THEN [ok |-> FALSE, err |-> FExc("ValueError", "primary_count"),
              readers |-> <<>>]
        ELSE IF PrimaryVerify(hl[primary[1]]) # "ok"
        THEN [ok |-> FALSE, readers |-> <<>>,
              err |-> FExc("AssertionError", PrimaryVerify(hl[primary[1]]))]
        ELSE IF bad # {}
        THEN [ok |-> FALSE, readers |-> <<>>,
              err |-> WrapSubint(hl[subints[first]], hl[primary[1]])]
        ELSE IF Len(subints) > 0 /\ ~made[1].ok
        THEN [ok |-> FALSE, readers |-> <<>>, err |-> made[1].err]
        ELSE [ok |-> TRUE, err |-> NoFErr,
              readers |-> [j \in 1..Len(subints) |-> made[j].r]]

\* if len(reader_list) != 1
NotOneReaderMutant(readers) == Len(readers) = 0
NotOneReader(readers) == Len(readers) # 1

NoReader == [ih |-> 0, weighted |-> FALSE, shape0 |-> 0]

\* open(filename, mode, **kwargs): [ok, err, reader].
open(hl, m, kw) ==
    LET g == get_readers(hl, kw) IN
    IF m # "r"
    THEN [ok |-> FALSE, err |-> FExc("ValueError", "unknown_mode"),
          reader |-> NoReader]
    ELSE IF ~g.ok THEN [ok |-> FALSE, err |-> g.err, reader |-> NoReader]
    ELSE IF NotOneReader(g.readers)
    THEN [ok |-> FALSE, err |-> FExc("RuntimeError", "one_subint_only"),
          reader |-> NoReader]
    ELSE [ok |-> TRUE, err |-> NoFErr, reader |-> g.readers[1]]

Open ==
    /\ fpc = "new"
    /\ \E o \in {open(hdu_list, mode, kwargs)} :
       /\ fpc' = IF o.ok THEN "open" ELSE "failed"
       /\ ferr' = o.err
       /\ reader' = o.reader
    /\ UNCHANGED <<hdu_list, mode, kwargs, foffset, lastRow, releaseLog>>
    /\ UNCHANGED <<cvars, lastFreq>>

\* The table the reader decodes.
Table == hdu_list[reader.ih].t

NoRow == [index |-> -1, weighted |-> FALSE, via |-> "none",
          res |-> Raise("none")]

\* A call of the wrapper's read_data_row(index, weighted).
ReadDataRow(i, w) ==
    /\ fpc = "open"
    /\ lastRow' = [index |-> i, weighted |-> w, via |-> "hdu",
                   res |-> read_data_row(Table, i, w)]
    /\ UNCHANGED <<hdu_list, mode, kwargs, fpc, ferr, reader, foffset,
                   releaseLog>>
    /\ UNCHANGED <<cvars, lastFreq>>

\* res.T.reshape((samples_per_frame,) + sample_shape) of _read_frame.
FrameOf(r, t) ==
    LET P == r.a.shape[1]
        M == r.a.shape[2]
        B == r.a.shape[3]
    IN  IF ~r.ok THEN r
        ELSE IF <<B, M, P>> # <<t.nbin, t.nchan, t.npol>>
        THEN Raise("ValueError")
        ELSE Ok([shape |-> <<samples_per_frame, B, M, P>>,
                 rows |-> <<[b \in 1..B |-> [j \in 1..M |-> [p \in 1..P |->
                               r.a.rows[p][j][b]]]]>>])

\* PSRFITSReader._read_frame(frame_index)
ReaderReadFrame(i) ==
    Only({FrameOf(r, Table) :
             r \in {read_data_row(Table, i, reader.weighted)}})

\* seek(pos) of the reader.
ReaderSeek(pos) ==
    /\ fpc = "open"
    /\ pos <= reader.shape0
    /\ foffset' = pos
    /\ UNCHANGED <<hdu_list, mode, kwargs, fpc, ferr, reader, lastRow,
                   releaseLog>>
    /\ UNCHANGED <<cvars, lastFreq>>

\* read(1) of the reader: the frame at the sample pointer.
ReaderRead ==
    /\ fpc = "open"
    /\ \E r \in {ReaderReadFrame(foffset)} :
       /\ lastRow' = [index |-> foffset, weighted |-> reader.weighted,
                      via |-> "reader", res |-> r]
       /\ foffset' = IF r.ok THEN foffset + 1 ELSE foffset
    /\ UNCHANGED <<hdu_list, mode, kwargs, fpc, ferr, reader, releaseLog>>
    /\ UNCHANGED <<cvars, lastFreq>>

\* HDUWrapper.close(): del self.hdu.data; del self.hdu
HDUWrapperClose(which) == <<which>>

\* PSRSubintHDU.close()
PSRSubintHDUCloseMutant == HDUWrapperClose("subint")
PSRSubintHDUClose == HDUWrapperClose("subint") \o HDUWrapperClose("primary")

\* BaseTaskBase.close(): closes self.ih, the wrapped HDU.
BaseTaskBaseClose == PSRSubintHDUClose

\* PSRFITSReader.close()
PSRFITSReaderClose == BaseTaskBaseClose \o <<"file">>

CloseReader ==
    /\ fpc = "open"
    /\ releaseLog' = releaseLog \o PSRFITSReaderClose
    /\ fpc' = "closed"
    /\ UNCHANGED <<hdu_list, mode, kwargs, ferr, reader, foffset, lastRow>>
    /\ UNCHANGED <<cvars, lastFreq>>

\* ------------------------------------------------------------ frequency
NoObs == [present |-> FALSE, n_chan |-> 0, c_freq |-> 0, bw |-> 0]

\* A frequency property looked at: of is "primary" or "subint", isNone
\* whether it returned None, res the array it returned or what it raised.
\* The elements of the array are numerators over den, in MHz: bw / n_chan
\* is a true division.
NoFreq == [of |-> "none", isNone |-> FALSE, den |-> 1, res |-> Raise("none")]

\* (n_chan + 1) // 2
RefChannelMutant(n) == n \div 2
RefChannel(n) == (n + 1) \div 2

\* PSRFITSPrimaryHDU.frequency: None when a keyword is missing, else
\* c_freq + (np.arange(1, n_chan + 1) - (n_chan + 1) // 2) * chan_bw.
PrimaryFrequency(h) ==
    LET o == h.obs
        n == o.n_chan
    IN  IF ~o.present
        THEN [of |-> "primary", isNone |-> TRUE, den |-> 1,
              res |-> Ok(NoFrame)]
        ELSE [of |-> "primary", isNone |-> FALSE, den |-> n,
              res |-> Ok([shape |-> <<n>>,
                          rows |-> [k \in 1..n |->
                             o.c_freq * n + (k - RefChannel(n)) * o.bw]])]

\* SubintHDU.frequency: the first row of DAT_FREQ reshaped (-1, 1), or
\* super().frequency; the class above SubintHDU is HDUWrapper, which has
\* no frequency.
SubintFrequency(h) ==
    LET t == h.t
        f == t.freq[1]
    IN  IF t.has_freq
        THEN [of |-> "subint", isNone |-> FALSE, den |-> 1,
              res |-> Ok([shape |-> <<Len(f), 1>>,
                          rows |-> [c \in 1..Len(f) |-> <<f[c]>>]])]
        ELSE [of |-> "subint", isNone |-> FALSE, den |-> 1,
              res |-> Raise("AttributeError")]

\* reader.ih.primary_hdu.frequency
GetPrimaryFrequency ==
    /\ fpc = "open"
    /\ lastFreq' = PrimaryFrequency(hdu_list[Named(hdu_list, "PRIMARY", 1)[1]])
    /\ UNCHANGED <<hdu_list, mode, kwargs, fpc, ferr, reader, foffset,
                   lastRow, releaseLog>>
    /\ UNCHANGED cvars

\* reader.ih.frequency
GetSubintFrequency ==
    /\ fpc = "open"
    /\ lastFreq' = SubintFrequency(hdu_list[reader.ih])
    /\ UNCHANGED <<hdu_list, mode, kwargs, fpc, ferr, reader, foffset,
                   lastRow, releaseLog>>
    /\ UNCHANGED cvars

\* The streams before the constructor runs.
InitRest ==
    /\ task \in Tasks
    /\ pc = "new"
    /\ err = NoErr
    /\ taskCalls = 0
    /\ shape = <<>>
    /\ attrs = NoAttrs
    /\ spf = 0
    /\ frame = NoFrame
    /\ frame_index = -1
    /\ last = NoRead
    /\ offsets = [k \in 1..Len(ihs) |-> 0]
    /\ closeLog = <<>>
    /\ closed = FALSE

\* The reader before open runs.
FitsRest ==
    /\ lastFreq = NoFreq
    /\ fpc = "new"
    /\ ferr = NoFErr
    /\ reader = NoReader
    /\ foffset = 0
    /\ lastRow = NoRow
    /\ releaseLog = <<>>

NoZero == [present |-> FALSE, numeric |-> FALSE, value |-> 0]

NoTable ==
    [nrow |-> 0, npol |-> 0, nchan |-> 0, nbin |-> 0, dshape |-> <<0, 0, 0>>,
     has_freq |-> FALSE, freq |-> <<>>, tsubint |-> <<>>, zero_off |-> NoZero,
     has_wts |-> FALSE, wts |-> <<>>]

PrimaryHDU(obs_mode, fitstype) ==
    [name |-> "PRIMARY", obs_mode |-> obs_mode, fitstype |-> fitstype,
     obs |-> NoObs, t |-> NoTable]

Extension(name, t) ==
    [name |-> name, obs_mode |-> "none", fitstype |-> "none",
     obs |-> NoObs, t |-> t]

\* No file: the state of the reader where only streams are combined.
NoFile ==
    /\ hdu_list = <<>>
    /\ mode = "r"
    /\ kwargs = [verify |-> "unset", weighted |-> "unset"]
    /\ FitsRest

\* Groups whose members may differ from the first in the attributes the
\* constructor compares; no member has metadata.  The first member holds
\* the nominal values (the comparison is with the first member).
RECURSIVE Groups(_, _)
Groups(K, s) ==
    IF K = 0 THEN {<<>>}
    ELSE IF K = 1 THEN {<<a>> : a \in {m \in Members(s) : Nominal(m)}}
    ELSE {g \o <<b>> : g \in Groups(K - 1, s), b \in Members(s)}

InitGroups ==
    /\ \E K \in 0..MaxStreams : \E s \in 1..MaxSpf : ihs \in Groups(K, s)
    /\ InitRest
    /\ NoFile

\* Groups that pass the comparison, of streams of one width, with
\* metadata: a frequency that is absent, a plain array or a Quantity; a
\* sideband and a polarization that are absent or a plain array.
MetaMembers(w) ==
    [sample_rate : {1}, dtype : {"f8"}, start_time : {0}, n : {NFrames},
     width : {w}, samples_per_frame : {1},
     frequency : {"None", "plain", "quantity"},
     sideband : {"None", "plain"}, polarization : {"None", "plain"}]

InitMeta ==
    /\ \E K \in 1..MaxStreams : \E w \in 1..MaxWidth :
          ihs \in [1..K -> MetaMembers(w)]
    /\ InitRest
    /\ NoFile

\* ZERO_OFF absent, '*', or 3.
ZeroOffs ==
    {NoZero, [present |-> TRUE, numeric |-> FALSE, value |-> 0],
     [present |-> TRUE, numeric |-> TRUE, value |-> 3]}

\* Tables that pass verification, of every shape, with and without a zero
\* offset and weights (of 0, 1 or 2 for each channel).
GoodTables ==
    UNION {
      UNION {
        [nrow : 1..MaxRow, npol : 1..MaxPol, nchan : {C}, nbin : 2..MaxBin,
         dshape : {<<0, 0, 0>>}, has_freq : {FALSE}, freq : {<<>>},
         tsubint : {<<>>}, zero_off : ZeroOffs, has_wts : {FALSE},
         wts : {<<>>}],
        [nrow : 1..MaxRow, npol : 1..MaxPol, nchan : {C}, nbin : 2..MaxBin,
         dshape : {<<0, 0, 0>>}, has_freq : {FALSE}, freq : {<<>>},
         tsubint : {<<>>}, zero_off : ZeroOffs, has_wts : {TRUE},
         wts : [1..C -> {0, 1, 2}]] }
      : C \in 1..MaxChan }

\* The columns the header of a consistent table implies.
Filled(t) ==
    [t EXCEPT !.dshape = <<t.npol, t.nchan, t.nbin>>,
              !.tsubint = [r \in 1..t.nrow |-> 1000]]

\* A table of one polarization and channel, with a DAT_FREQ column, and
\* the ways it can break an invariant: one bin, a last row of another
\* frequency, a last row 0.2 s longer, a header of one channel more than
\* the data.
Plain(nrow) ==
    [nrow |-> nrow, npol |-> 1, nchan |-> 1, nbin |-> 2,
     dshape |-> <<1, 1, 2>>, has_freq |-> TRUE,
     freq |-> [r \in 1..nrow |-> 1400],
     tsubint |-> [r \in 1..nrow |-> 1000], zero_off |-> NoZero,
     has_wts |-> FALSE, wts |-> <<>>]

Variants(nrow) ==
    LET t == Plain(nrow) IN
    {t,
     [t EXCEPT !.nbin = 1, !.dshape = <<1, 1, 1>>],
     [t EXCEPT !.freq[nrow] = IF nrow > 1 THEN 1401 ELSE 1400],
     [t EXCEPT !.tsubint[nrow] = IF nrow > 1 THEN 1020 ELSE 1000],
     [t EXCEPT !.nchan = 2]}

Extensions ==
    {Extension("SUBINT", t) : t \in UNION {Variants(n) : n \in 1..MaxRow}}
    \cup {Extension("HISTORY", NoTable), Extension("PRIMARY", NoTable)}

Primaries ==
    {PrimaryHDU("PSR", "PSRFITS"), PrimaryHDU("SEARCH", "PSRFITS"),
     PrimaryHDU("PSR", "FITS")}

\* Fold-mode files of one table, decoded with and without weighting.
InitDecode ==
    /\ \E t \in GoodTables :
          hdu_list = <<PrimaryHDU("PSR", "PSRFITS"),
                       Extension("SUBINT", Filled(t))>>
    /\ \E w \in {"unset", "True", "False"} : \E m \in {"r", "w"} :
          /\ w # "unset" => m = "r"
          /\ mode = m
          /\ kwargs = [verify |-> "unset", weighted |-> w]

\* Files of a primary HDU and any extensions, opened with and without the
\* verify option.
InitFiles ==
    /\ \E n \in 1..MaxHDUs :
          /\ hdu_list \in [1..n -> Primaries \cup Extensions]
          /\ hdu_list[1] \in Primaries
          /\ \A i \in 2..n : hdu_list[i] \in Extensions
    /\ mode = "r"
    /\ \E v \in {"unset", "True", "False"} :
          kwargs = [verify |-> v, weighted |-> "unset"]

\* The OBSNCHAN, OBSFREQ, OBSBW of a primary header: absent, or any
\* channel count with a centre frequency and a bandwidth of either sign.
Observations ==
    {NoObs} \cup [present : {TRUE}, n_chan : 1..MaxObsChan,
                  c_freq : {1400, 1401}, bw : {-8, 8, 9}]

\* Tables that pass verification, with and without a DAT_FREQ column of
\* one frequency per channel.
FreqTables ==
    UNION {
      [nrow : {R}, npol : {1}, nchan : {C}, nbin : {2},
       dshape : {<<1, C, 2>>}, has_freq : {F},
       freq : {IF F THEN [r \in 1..R |-> [c \in 1..C |-> 1300 + c]]
               ELSE <<>>},
       tsubint : {[r \in 1..R |-> 1000]}, zero_off : {NoZero},
       has_wts : {FALSE}, wts : {<<>>}]
      : R \in 1..MaxRow, C \in 1..MaxChan, F \in BOOLEAN }

\* Fold-mode files of one table, for the frequencies.
InitFreq ==
    /\ \E o \in Observations : \E t \in FreqTables :
          hdu_list = <<[PrimaryHDU("PSR", "PSRFITS") EXCEPT !.obs = o],
                       Extension("SUBINT", t)>>
    /\ mode = "r"
    /\ kwargs = [verify |-> "unset", weighted |-> "unset"]
    /\ FitsRest
    /\ ihs = <<>>
    /\ InitRest
    /\ task = [cls |-> "Concatenate", axis |-> 1, fn |-> "none"]

InitFits ==
    /\ InitDecode \/ InitFiles
    /\ FitsRest
    /\ ihs = <<>>
    /\ InitRest
    /\ task = [cls |-> "Concatenate", axis |-> 1, fn |-> "none"]

Next ==
    \/ Construct
    \/ \E i \in 0..NFrames : ReadFrame(i)
    \/ \E k \in 1..Len(ihs) : \E pos \in SeekTargets(k) : MemberSeek(k, pos)
    \/ Close

Spec == InitGroups /\ [][Next]_vars

NextMeta == Construct

SpecMeta == InitMeta /\ [][NextMeta]_vars

NextFits ==
    \/ Open
    \/ \E i \in 0..MaxRow : \E w \in BOOLEAN : ReadDataRow(i, w)
    \/ \E pos \in 0..MaxRow : ReaderSeek(pos)
    \/ ReaderRead
    \/ CloseReader

SpecFits == InitFits /\ [][NextFits]_vars

NextFreq ==
    \/ Open
    \/ GetPrimaryFrequency
    \/ GetSubintFrequency
    \/ CloseReader

SpecFreq == InitFreq /\ [][NextFreq]_vars

\* ================================================================ claims

\* ---- C1 ----------------------------------------------------------------
\* C1 as stated: a combined stream that was constructed has the axis-0
\* length of every member, and every block its task produces from member
\* blocks has the axis-0 length of those blocks (a task that drops or
\* duplicates time samples for any block length fails construction).
C1_Original ==
    /\ pc = "built" => \A k \in 1..Len(ihs) : shape[1] = ihs[k].n
    /\ (pc = "built" /\ last.index >= 0 /\ last.res.ok)
          => last.res.a.shape[1] = spf

\* C1 as amended: a combined stream that was constructed has the axis-0
\* length of every member, and its task returns 7 samples for the probe of
\* 7 samples: a task that changes the length of the probe fails
\* construction.  Blocks of other lengths are not checked.
C1_ProbeLength ==
    pc = "built" =>
        /\ \A k \in 1..Len(ihs) : shape[1] = ihs[k].n
        /\ \A fill \in {NoneCode + 1, NoneCode + 2} :
              LET r == TaskApply(task, Fakes(ihs, fill), NoFrame)
              IN  r.ok /\ r.a.shape[1] = ProbeLen

\* A stream over two members was constructed with a task that keeps the
\* probe's length and shortens other blocks.
C1_Witness ==
    /\ pc = "built"
    /\ Len(ihs) >= 2
    /\ task.fn = "dropeven"
    /\ last.index >= 0

\* ---- C2 ----------------------------------------------------------------
\* The attributes in which some member differs from the first.
Differing ==
    {CheckedAttrs[i] : i \in
        {j \in 1..4 : \E k \in 2..Len(ihs) :
            AttrOf(ihs[k], CheckedAttrs[j]) # AttrOf(ihs[1], CheckedAttrs[j])}}

\* C2: for a group in which some member differs from the first in
\* sample_rate, dtype, start_time or axis-0 length, construction fails with
\* a ConsistencyError that identifies such an attribute, the task is never
\* invoked, and no combined stream is produced.
C2_Original ==
    (pc # "new" /\ Differing # {}) =>
        /\ pc = "failed"
        /\ ErrorKind(err) = "ConsistencyError"
        /\ err.subject \in Differing
        /\ taskCalls = 0

\* ---- C3 ----------------------------------------------------------------
\* C3: whatever the members' cursors were, _read_frame(i) returns the task
\* applied, in group order, to the members' samples
\* [i * spf, (i + 1) * spf), and nothing of an earlier frame.
C3_ReadFrame ==
    last.index >= 0 =>
        last.res =
            TaskApply(task,
                      [k \in 1..Len(ihs) |->
                          MemberRead(k, last.index * spf, spf)],
                      NoFrame)

\* Frame 0 of a stream over two members was read while some member's cursor
\* was elsewhere.
C3_Witness ==
    /\ last.index = 0
    /\ last.moved
    /\ last.res.ok
    /\ Len(ihs) >= 2

\* ---- C4 ----------------------------------------------------------------
\* C4: for each of frequency, sideband, polarization: when it is None on
\* every member the combined value is None; when some members define it and
\* others do not, the construction either yields a combined value or fails
\* with an AttributeCombinationError naming the attribute; and every
\* failure of the combination step is that error, naming an attribute.
C4_Original ==
    (pc # "new" /\ err.note \notin {"cannot_combine_shapes",
                                    "affected_sample_axis"}) =>
        /\ \A i \in 1..3 :
              LET a == MetaNames[i]
                  absent == {k \in 1..Len(ihs) : GetAttr(ihs[k], a) = "None"}
              IN  /\ (absent = 1..Len(ihs) /\ pc = "built")
                        => attrs[a] = NoneAttr
                  /\ (absent # {} /\ absent # 1..Len(ihs))
                        => \/ pc = "built" /\ attrs[a] # NoneAttr
                           \/ /\ pc = "failed"
                              /\ ErrorKind(err) = "AttributeCombinationError"
                              /\ err.subject \in {MetaNames[j] : j \in 1..i}
        /\ pc = "failed"
              => /\ ErrorKind(err) = "AttributeCombinationError"
                 /\ err.subject \in {MetaNames[j] : j \in 1..3}

\* ---- C5 ----------------------------------------------------------------
\* The channels the members before k take up in a concatenation.
WidthBefore(k) == SumSeq([j \in 1..(k - 1) |-> ihs[j].width])

\* C5: in every frame a Concatenate or Stack stream returns, also into the
\* buffer of the frame before, member k's block is found unchanged: by
\* slicing the concatenation axis at the widths of the members before k,
\* or by selecting index k of the new axis.
C5_RoundTrip ==
    (pc = "built" /\ last.index >= 0) =>
        LET out == last.res.a
            blk(k) == MemberRead(k, last.index * spf, spf)
        IN
        /\ (task.cls = "Concatenate" /\ task.axis = 1) =>
              /\ last.res.ok
              /\ \A k \in 1..Len(ihs) :
                    [t \in 1..spf |->
                        SubSeq(out.rows[t], WidthBefore(k) + 1,
                               WidthBefore(k) + ihs[k].width)] = blk(k).rows
        /\ (task.cls = "Stack" /\ task.axis = 1) =>
              /\ last.res.ok
              /\ \A k \in 1..Len(ihs) :
                    [t \in 1..spf |-> out.rows[t][k]] = blk(k).rows
        /\ (task.cls = "Stack" /\ task.axis = 2) =>
              /\ last.res.ok
              /\ \A k \in 1..Len(ihs) :
                    [t \in 1..spf |->
                        [c \in 1..ihs[k].width |-> out.rows[t][c][k]]]
                    = blk(k).rows

\* A Concatenate stream over two members of different widths returned a
\* frame in the buffer of the frame before.
C5_Witness ==
    /\ pc = "built"
    /\ task.cls = "Concatenate"
    /\ Len(ihs) >= 2
    /\ ihs[1].width # ihs[2].width
    /\ last.reused
    /\ last.res.ok

\* ---- C8 ----------------------------------------------------------------
\* C8: close() of a combined stream calls close() of every member once, in
\* group order.
C8_Close ==
    /\ closed => closeLog = [k \in 1..Len(ihs) |-> k]
    /\ ~closed => closeLog = <<>>

\* A combined stream over two members was closed.
C8_Witness == closed /\ Len(ihs) >= 2

\* ---- C6 ----------------------------------------------------------------
\* C6: read_data_row of a row of the table returns an array of the shape
\* (polarization, channel, bin) whose element is
\* (raw[p,c,b] - z) * scale[p,c] + offset[p,c], times weight[c] when
\* weighting is asked for and there is a weight column; z is ZERO_OFF, or 0
\* when the keyword is absent or not a number.
C6_Original ==
    (fpc \in {"open", "closed"} /\ lastRow.via = "hdu"
     /\ lastRow.index < Table.nrow) =>
        LET t == Table
            r == lastRow.index
            z == IF t.zero_off.present /\ t.zero_off.numeric
                 THEN t.zero_off.value ELSE 0
            w(c) == IF lastRow.weighted /\ t.has_wts THEN t.wts[c] ELSE 1
            j(p, c) == (p - 1) * t.nchan + c
        IN  /\ lastRow.res.ok
            /\ lastRow.res.a.shape = <<t.npol, t.nchan, t.nbin>>
            /\ \A p \in 1..t.npol : \A c \in 1..t.nchan : \A b \in 1..t.nbin :
                  lastRow.res.a.rows[p][c][b] =
                     ((Raw(r, p, c, b) - z) * DatScl(r, j(p, c))
                      + DatOffs(r, j(p, c))) * w(c)

\* ---- C7 ----------------------------------------------------------------
Primary == Named(hdu_list, "PRIMARY", 1)
Subints == Named(hdu_list, "SUBINT", 1)

\* open(filename) in read mode: no verify option given.
PlainOpen == fpc # "new" /\ mode = "r" /\ kwargs.verify = "unset"

Wrappable ==
    /\ Len(Primary) = 1
    /\ hdu_list[Primary[1]].fitstype = "PSRFITS"
    /\ hdu_list[Primary[1]].obs_mode = "PSR"
    /\ \A i \in 1..Len(Subints) :
          LET t == hdu_list[Subints[i]].t IN
          /\ t.nbin > 1
          /\ t.has_freq => \A r \in 1..t.nrow : t.freq[r] = t.freq[1]
          /\ \A r \in 1..t.nrow : IsClose(t.tsubint[1], t.tsubint[r])
          /\ t.dshape = <<t.npol, t.nchan, t.nbin>>

Released(x) == Cardinality({i \in 1..Len(releaseLog) : releaseLog[i] = x})

\* C9: close() of the reader open returned releases the SUBINT wrapper, the
\* primary wrapper and the file once each, whatever was sought and read
\* before; nothing is released before.
C9_Close ==
    /\ fpc = "closed" =>
          \A x \in {"subint", "primary", "file"} : Released(x) = 1
    /\ fpc = "open" => releaseLog = <<>>

\* A reader was closed after a frame was read through it and its pointer
\* moved.
C9_Witness ==
    /\ fpc = "closed"
    /\ lastRow.via = "reader"
    /\ lastRow.res.ok
    /\ foffset > 0

\* ---- C10 ---------------------------------------------------------------
\* C10: on a fold-mode file of one SUBINT table, open with verification on
\* (the default) fails with the error of the violated check when the table
\* violates one, and open with verify=False returns a decoder.
C10_Original ==
    (fpc # "new" /\ mode = "r" /\ Len(Primary) = 1 /\ Len(Subints) = 1
     /\ hdu_list[Primary[1]].fitstype = "PSRFITS"
     /\ hdu_list[Primary[1]].obs_mode = "PSR") =>
        LET v == SubintVerify(hdu_list[Subints[1]], hdu_list[Primary[1]])
        IN  /\ (kwargs.verify # "False" /\ v # "ok") =>
                  /\ fpc = "failed"
                  /\ ferr = FExc("AssertionError", v)
            /\ kwargs.verify = "False" => fpc \in {"open", "closed"}

\* ---- C11 ---------------------------------------------------------------
\* The primary header's OBSNCHAN, OBSFREQ, OBSBW.
Obs == hdu_list[Primary[1]].obs

\* C11 as stated: the derived centre frequency of channel k of n is
\* center_frequency + (k - ceiling((n + 1) / 2)) * (bandwidth / n), for
\* odd and even n.  (Both sides times n.)
C11_Original ==
    (lastFreq.of = "primary" /\ Obs.present) =>
        LET n == Obs.n_chan
            ceil == CHOOSE r \in 0..(n + 1) : 2 * r >= n + 1 /\ 2 * (r - 1) < n + 1
        IN  /\ lastFreq.res.ok
            /\ lastFreq.den = n
            /\ lastFreq.res.a.shape = <<n>>
            /\ \A k \in 1..n :
                  lastFreq.res.a.rows[k] = Obs.c_freq * n + (k - ceil) * Obs.bw

\* C11 as amended: the derived centre frequency of channel k of n is
\* center_frequency + (k - floor((n + 1) / 2)) * (bandwidth / n): the
\* reference channel is (n + 1) / 2 for odd n and n / 2 for even n.
C11_Frequency ==
    (lastFreq.of = "primary" /\ Obs.present) =>
        LET n == Obs.n_chan
            floor == CHOOSE r \in 0..(n + 1) : 2 * r <= n + 1 /\ 2 * (r + 1) > n + 1
        IN  /\ lastFreq.res.ok
            /\ lastFreq.den = n
            /\ lastFreq.res.a.shape = <<n>>
            /\ \A k \in 1..n :
                  lastFreq.res.a.rows[k] = Obs.c_freq * n + (k - floor) * Obs.bw

\* The frequencies of a primary header of an even number of channels, more
\* than one, were derived.
C11_Witness ==
    /\ lastFreq.of = "primary"
    /\ Obs.present
    /\ Obs.n_chan > 1
    /\ Obs.n_chan % 2 = 0
    /\ lastFreq.res.ok

\* ---- C12 ---------------------------------------------------------------
\* C12: read_data_row(i) fails with the end-of-stream condition when
\* i >= n_rows and succeeds when i < n_rows, also after reads that failed.
C12_Original ==
    (fpc \in {"open", "closed"} /\ lastRow.via = "hdu") =>
        /\ lastRow.index >= Table.nrow =>
              ~lastRow.res.ok /\ lastRow.res.exc = "EOFError"
        /\ lastRow.index < Table.nrow => lastRow.res.ok

\* ---- C13 ---------------------------------------------------------------
\* C13: the frequency of a record set is the first row of the frequency
\* column, one row per channel, when the table has that column; else the
\* primary header's derived frequencies, one row per channel, or None when
\* the header lacks the keywords; it never fails.
C13_Original ==
    lastFreq.of = "subint" =>
        LET t == Table
            derived == PrimaryFrequency(hdu_list[Primary[1]])
        IN  /\ lastFreq.res.ok
            /\ t.has_freq =>
                  /\ ~lastFreq.isNone
                  /\ lastFreq.res.a.shape = <<t.nchan, 1>>
                  /\ \A c \in 1..t.nchan :
                        lastFreq.res.a.rows[c] = <<t.freq[1][c]>>
            /\ (~t.has_freq /\ ~Obs.present) => lastFreq.isNone
            /\ (~t.has_freq /\ Obs.present) =>
                  /\ ~lastFreq.isNone
                  /\ lastFreq.den = derived.den
                  /\ lastFreq.res.a.shape = <<Obs.n_chan, 1>>
                  /\ \A c \in 1..Obs.n_chan :
                        lastFreq.res.a.rows[c] = <<derived.res.a.rows[c]>>

====
